---- MODULE Spec2Model ----
(***************************************************************************)
(* Model of the bonbast rate bot: the rate-source client                   *)
(* (bonbast_client.py), the per-target store (storage.py) and the          *)
(* scheduled / forced delivery engine (main.py: build_lines,               *)
(* send_for_chat, sender_loop, on_cb).                                     *)
(*                                                                         *)
(* Conventions                                                             *)
(*  - An optional value (Python None) is a sequence: <<>> is None and      *)
(*    <<x>> is the value x.                                                *)
(*  - Rates are counted in ticks of 0.5e-9, so that the float tolerance    *)
(*    1e-9 of build_lines is EPS = 2 ticks and a difference below the      *)
(*    tolerance (1 tick) exists.                                           *)
(*  - Time is counted in whole minutes since midnight of day 0 (the tick   *)
(*    handler only reads the minute); token ages are in minutes too.       *)
(*  - send_for_chat calls client.fetch(); the client's data fetch is       *)
(*    BonbastClient.fetch_json, which is what the call is bound to here.   *)
(***************************************************************************)
EXTENDS Integers, Sequences, FiniteSets, Bags, TLC

VARIABLES
    db,        \* committed rows of table chats: chat_id -> row
    now,       \* wall clock, minutes
    client,    \* BonbastClient token cache: [param, param_ts]
    loop,      \* sender_loop: [pc, sleepAt, tickNow, queue, early, fetches]
    frame,     \* send_for_chat activations: process -> frame
    outbox,    \* bag of the messages the transport delivered
    done,      \* the send_for_chat activation that finished in the last step, if any
    forced,    \* number of forced invocations started so far
    user_data  \* the admin's user_data["PENDING"]: <<>> or <<[chat_id, kind]>>

vars == <<db, now, client, loop, frame, outbox, done, forced, user_data>>

--------------------------------------------------------------------------
(* Bounds of the model *)

\* minutes the clock may advance after the start
MaxElapsed == 1
\* forced ("send now" / "test") invocations in one behaviour
MaxForced == 1
\* wake-ups of sender_loop that find the wall clock still in the minute
\* in which the sleep began (timer drift / clock adjustment)
MaxEarly == 1

--------------------------------------------------------------------------
(* Program constants *)

\* 1e-9, in ticks of 0.5e-9
EPS == 2
\* token max age: 600 s, in minutes
MaxAge == 10
MinutesPerHour == 60
MinutesPerDay == 1440
\* interval used when the configured one is missing or below 1
DefaultInterval == 5

None == <<>>
Some(x) == <<x>>
IsNone(o) == o = <<>>
Val(o) == o[1]

Abs(x) == IF x < 0 THEN -x ELSE x

Chats == {1, 2}
AdminId == 99
Procs == {"sched", "admin"}
Cats == {"cur", "coin", "metal"}

--------------------------------------------------------------------------
(* Catalog *)

NoKey == ""

Item(code, sell, buy, cat) ==
    [code |-> code, sell_key |-> sell, buy_key |-> buy, category |-> cat]

CURRENCIES == << Item("usd", "usd1", "usd2", "cur"), Item("eur", "eur1", "eur2", "cur") >>
COINS == << Item("emami", "emami1", "emami12", "coin") >>
METALS == << Item("btc", "bitcoin", NoKey, "metal") >>

CAT_BY_CAT == [c \in Cats |->
    CASE c = "cur" -> CURRENCIES [] c = "coin" -> COINS [] OTHER -> METALS]

Codes(items) == {items[i].code : i \in 1..Len(items)}

\* the fields of the catalog: <<category, index>>
Fields == UNION {{<<c, i>> : i \in 1..Len(CAT_BY_CAT[c])} : c \in Cats}

FieldItem(f) == CAT_BY_CAT[f[1]][f[2]]

--------------------------------------------------------------------------
(* Raw JSON values and to_number *)

JNull == [k |-> "null", n |-> 0, s |-> <<>>]
JNum(n) == [k |-> "num", n |-> n, s |-> <<>>]
JStr(s) == [k |-> "str", n |-> 0, s |-> s]

Digits == <<"0", "1", "2", "3", "4", "5", "6", "7", "8", "9">>
IsDigit(ch) == \E i \in 1..10 : Digits[i] = ch
DigitVal(ch) == (CHOOSE i \in 1..10 : Digits[i] = ch) - 1

RECURSIVE RemoveAll(_, _)
RemoveAll(s, ch) ==
    IF s = <<>> THEN <<>>
    ELSE IF Head(s) = ch THEN RemoveAll(Tail(s), ch)
    ELSE <<Head(s)>> \o RemoveAll(Tail(s), ch)

RECURSIVE LStrip(_)
LStrip(s) == IF s # <<>> /\ Head(s) = " " THEN LStrip(Tail(s)) ELSE s

RECURSIVE RStrip(_)
RStrip(s) ==
    IF s # <<>> /\ s[Len(s)] = " " THEN RStrip(SubSeq(s, 1, Len(s) - 1)) ELSE s

Strip(s) == RStrip(LStrip(s))

RECURSIVE ParseNat(_, _)
ParseNat(s, acc) ==
    IF s = <<>> THEN acc ELSE ParseNat(Tail(s), 10 * acc + DigitVal(Head(s)))

\* float(s) for the digit strings of the model; None for ValueError
ParseFloat(s) ==
    IF s # <<>> /\ \A i \in 1..Len(s) : IsDigit(s[i])
    THEN Some(ParseNat(s, 0)) ELSE None

to_number(v) ==
    CASE v.k = "null" -> None
      [] v.k = "num" -> Some(v.n)
      [] OTHER ->
            LET s == RemoveAll(Strip(v.s), ",")
            IN IF s = <<>> THEN None ELSE ParseFloat(s)

\* dict.get(key): None (JSON null) when the key is absent
DataGet(data, key) == IF key \in DOMAIN data THEN data[key] ELSE JNull

--------------------------------------------------------------------------
(* Configuration *)

AllSelected == [c \in Cats |-> Codes(CAT_BY_CAT[c])]
NoTriggers == [c \in Cats |-> {}]

default_config ==
    [auto_send |-> FALSE, interval_min |-> 5, quiet |-> <<>>,
     only_if_changed |-> FALSE, sellbuy |-> "sell", threshold |-> 0,
     selected |-> AllSelected, triggers |-> NoTriggers]

\* ch["config"] or default_config(): the row's config is <<>> for {}
ConfigOf(ch) == IF ch.config = <<>> THEN default_config ELSE ch.config[1]

EmptyState == [last_values |-> [c \in Cats |-> <<>>], last_slot |-> <<>>]

\* ch["state"] or {}: the row's state is <<>> for {}
StateOf(ch) == IF ch.state = <<>> THEN EmptyState ELSE ch.state[1]

--------------------------------------------------------------------------
(* Quiet window, slot *)

\* the four integers of "HH:MM-HH:MM", or <<>> when the string is empty or
\* does not match; the result is the pair of times of day, in minutes
parse_quiet(s) ==
    IF s = <<>> THEN None
    ELSE IF ~(0 <= s[1] /\ s[1] <= 23 /\ 0 <= s[3] /\ s[3] <= 23
              /\ 0 <= s[2] /\ s[2] <= 59 /\ 0 <= s[4] /\ s[4] <= 59)
    THEN None
    ELSE Some(<<s[1] * MinutesPerHour + s[2], s[3] * MinutesPerHour + s[4]>>)

TimeOfDay(t) == t % MinutesPerDay
MinuteOfHour(t) == t % MinutesPerHour

\* faulty variant of in_quiet: the end of the window is included
in_quiet_end_inclusive(t, quiet) ==
    IF quiet = <<>> THEN FALSE
    ELSE LET parsed == parse_quiet(quiet) IN
         IF IsNone(parsed) THEN FALSE
         ELSE LET start == Val(parsed)[1]
                  end == Val(parsed)[2]
                  tod == TimeOfDay(t)
              IN IF start = end THEN FALSE
                 ELSE IF start < end THEN start <= tod /\ tod <= end
                 ELSE tod >= start \/ tod <= end

\* faulty variant of in_quiet: a window that wraps past midnight is
\* compared like one that does not
in_quiet_no_wrap(t, quiet) ==
    IF quiet = <<>> THEN FALSE
    ELSE LET parsed == parse_quiet(quiet) IN
         IF IsNone(parsed) THEN FALSE
         ELSE LET start == Val(parsed)[1]
                  end == Val(parsed)[2]
                  tod == TimeOfDay(t)
              IN start <= tod /\ tod < end

in_quiet(t, quiet) ==
    IF quiet = <<>> THEN FALSE
    ELSE LET parsed == parse_quiet(quiet) IN
         IF IsNone(parsed) THEN FALSE
         ELSE LET start == Val(parsed)[1]
                  end == Val(parsed)[2]
                  tod == TimeOfDay(t)
              IN IF start = end THEN FALSE
                 ELSE IF start < end THEN start <= tod /\ tod < end
                 ELSE tod >= start \/ tod < end

\* strftime("%Y/%m/%d %H:%M"): day, hour, minute
now_slot_tehran(t) ==
    <<t \div MinutesPerDay, (t % MinutesPerDay) \div MinutesPerHour, t % MinutesPerHour>>

--------------------------------------------------------------------------
(* build_lines: change detection of one category *)

ItemKey(it, sellbuy) ==
    IF sellbuy = "sell" \/ it.buy_key = NoKey THEN it.sell_key ELSE it.buy_key

ItemNum(it, cfg, data) == to_number(DataGet(data, ItemKey(it, cfg.sellbuy)))

\* faulty variant of ThresholdTest: a difference equal to a positive
\* threshold does not count
ThresholdTest_strict(num, prev, threshold) ==
    IF threshold <= 0 THEN Abs(num - prev) > EPS
    ELSE Abs(num - prev) > threshold

\* lines 209-214: the threshold test on one trigger field
ThresholdTest(num, prev, threshold) ==
    IF threshold <= 0 THEN Abs(num - prev) > EPS
    ELSE Abs(num - prev) >= threshold

\* faulty variant of TriggerCodes: no fall-back to the selected codes
TriggerCodes_no_fallback(cfg, cat) == cfg.triggers[cat]

TriggerCodes(cfg, cat) ==
    IF cfg.triggers[cat] # {} THEN cfg.triggers[cat] ELSE cfg.selected[cat]

\* lines 200-214: does item `it` set changed = True
ItemChanged(it, cfg, data, last) ==
    LET num == ItemNum(it, cfg, data) IN
    /\ ~IsNone(num)
    /\ it.code \in DOMAIN last
    /\ it.code \in TriggerCodes(cfg, it.category)
    /\ ThresholdTest(Val(num), last[it.code], cfg.threshold)

ItemArrow(it, cfg, data, last) ==
    LET num == ItemNum(it, cfg, data) IN
    IF ~IsNone(num) /\ it.code \in DOMAIN last
    THEN IF Val(num) > last[it.code] + EPS THEN "up"
         ELSE IF Val(num) < last[it.code] - EPS THEN "down" ELSE ""
    ELSE ""

\* the items the loop does not skip (line 192)
Shown(section_items, cfg) ==
    {i \in 1..Len(section_items) :
        section_items[i].code \in cfg.selected[section_items[1].category]}

\* lines 216-218: last values refreshed for every shown numeric item
NewLast(section_items, cfg, data, last) ==
    LET upd == {i \in Shown(section_items, cfg) :
                    ~IsNone(ItemNum(section_items[i], cfg, data))}
        item(code) == CHOOSE i \in upd : section_items[i].code = code
    IN [code \in DOMAIN last \cup {section_items[i].code : i \in upd} |->
            IF \E i \in upd : section_items[i].code = code
            THEN Val(ItemNum(section_items[item(code)], cfg, data))
            ELSE last[code]]

build_lines(section_items, cfg, data, last) ==
    [arrows |-> [i \in Shown(section_items, cfg) |->
                    ItemArrow(section_items[i], cfg, data, last)],
     new_last |-> NewLast(section_items, cfg, data, last),
     changed |-> \E i \in Shown(section_items, cfg) :
                    ItemChanged(section_items[i], cfg, data, last)]

--------------------------------------------------------------------------
(* Storage: table chats behind sqlite3 connections *)

NoRow == [present |-> FALSE, approved |-> 0, config |-> <<>>, state |-> <<>>,
          updated_at |-> 0]

\* "finally: con.close()": the statement ran in the implicit transaction
\* that sqlite3 opens before an UPDATE / INSERT / DELETE, no commit() is
\* called, and closing the connection discards the pending transaction
con_close(committed, pending) == committed

\* the UPDATE of set_approved (lines 211-214): no row, no effect
set_approved_stmt(d, chat_id, approved, t) ==
    IF d[chat_id].present
    THEN [d EXCEPT ![chat_id].approved = IF approved THEN 1 ELSE 0,
                   ![chat_id].updated_at = t]
    ELSE d

set_approved(d, chat_id, approved, t) ==
    con_close(d, set_approved_stmt(d, chat_id, approved, t))

\* the UPDATE of set_config (lines 223-226)
set_config_stmt(d, chat_id, config, t) ==
    IF d[chat_id].present
    THEN [d EXCEPT ![chat_id].config = Some(config), ![chat_id].updated_at = t]
    ELSE d

set_config(d, chat_id, config, t) ==
    con_close(d, set_config_stmt(d, chat_id, config, t))

\* faulty variant of set_state_stmt: the UPDATE has no WHERE clause
set_state_stmt_all_rows(d, chat_id, state, t) ==
    [k \in DOMAIN d |->
        IF d[k].present
        THEN [d[k] EXCEPT !.state = Some(state), !.updated_at = t]
        ELSE d[k]]

\* the UPDATE of set_state (lines 235-238)
set_state_stmt(d, chat_id, state, t) ==
    IF d[chat_id].present
    THEN [d EXCEPT ![chat_id].state = Some(state), ![chat_id].updated_at = t]
    ELSE d

set_state(d, chat_id, state) ==
    con_close(d, set_state_stmt(d, chat_id, state, now))

\* the row an INSERT of upsert_chat creates: approved 0, config_json and
\* state_json '{}'
NewRow(t) == [present |-> TRUE, approved |-> 0, config |-> <<>>,
              state |-> <<>>, updated_at |-> t]

\* faulty variant of upsert_stmt: INSERT OR REPLACE, the row is rewritten
\* with the values of the INSERT
upsert_stmt_replace(d, chat_id, t) == [d EXCEPT ![chat_id] = NewRow(t)]

\* the statement of upsert_chat, lines 134-143: INSERT ... ON CONFLICT
\* (chat_id) DO UPDATE SET title, type, updated_at (title and type are not
\* part of the rows here)
upsert_stmt(d, chat_id, t) ==
    IF d[chat_id].present THEN [d EXCEPT ![chat_id].updated_at = t]
    ELSE [d EXCEPT ![chat_id] = NewRow(t)]

upsert_chat(d, chat_id, t) == con_close(d, upsert_stmt(d, chat_id, t))

\* the statement of remove_chat, line 151
remove_stmt(d, chat_id) == [d EXCEPT ![chat_id] = NoRow]

remove_chat(d, chat_id) == con_close(d, remove_stmt(d, chat_id))

get_chat(d, chat_id) == IF d[chat_id].present THEN Some(d[chat_id]) ELSE None

RECURSIVE SortDesc(_, _)
SortDesc(d, ids) ==
    IF ids = {} THEN <<>>
    ELSE LET top == CHOOSE i \in ids :
                        \A j \in ids : \/ d[j].updated_at < d[i].updated_at
                                       \/ (d[j].updated_at = d[i].updated_at /\ i <= j)
         IN <<top>> \o SortDesc(d, ids \ {top})

\* SELECT ... ORDER BY updated_at DESC: the chat ids, in row order
list_chats(d) == SortDesc(d, {c \in Chats : d[c].present})

--------------------------------------------------------------------------
(* Upstream responses *)

Tokens == {"t1", "t2"}

SnapA == [obj |-> TRUE,
          data |-> [k \in {"usd1", "usd2", "eur1", "bitcoin"} |->
                     CASE k = "usd1" -> JNum(100) [] k = "usd2" -> JNum(90)
                       [] k = "eur1" -> JStr(<<"1", ",", "2", "0">>)
                       [] OTHER -> JNum(50)]]
\* usd1 one tick (less than the tolerance) above SnapA
SnapB == [SnapA EXCEPT !.data["usd1"] = JNum(101)]
\* usd1 four ticks above SnapA
SnapC == [SnapA EXCEPT !.data["usd1"] = JNum(104)]
\* {"reset": 1}: an object without rates
SnapReset == [obj |-> TRUE, data |-> [k \in {"reset"} |-> JNum(1)]]
\* a JSON body that is not an object
SnapList == [obj |-> FALSE, data |-> <<>>]

Bodies == {SnapA, SnapB, SnapC, SnapReset, SnapList}

--------------------------------------------------------------------------
(* send_for_chat activations *)

\* the locals of a suspended activation: what it read at lines 794-805,
\* where fetch_json stands (gets and nposts count its GETs and POSTs so
\* far, tok is the token of the POST in flight, page the token the last
\* landing page carried, stale the token of the POST that failed), and,
\* once the message is being sent, its slot and its recipient
IdleFrame ==
    [pc |-> "idle", chat |-> 0, force |-> FALSE, test |-> FALSE,
     tickNow |-> 0, now |-> 0, approved |-> FALSE, cfg |-> <<>>,
     state |-> <<>>, gets |-> 0, nposts |-> 0, tok |-> <<>>,
     page |-> <<>>, stale |-> <<>>, slot |-> <<>>, target |-> 0]

\* what the last step reports of the activation it advanced: pc is how the
\* activation ended ("sending": it called set_state and awaits
\* send_message), cfg and state are what it had read, and r holds what
\* lines 811-865 computed, if they ran; raised tells whether the request
\* the activation awaited ended in an exception
NoResult == [body |-> <<>>, changed |-> FALSE, should_send |-> FALSE,
             written |-> <<>>]

Report(f, outcome, r) ==
    [pc |-> outcome, chat |-> f.chat, force |-> f.force, test |-> f.test,
     tickNow |-> f.tickNow, now |-> f.now, approved |-> f.approved,
     cfg |-> f.cfg, state |-> f.state, gets |-> f.gets,
     nposts |-> f.nposts, page |-> f.page, stale |-> f.stale,
     slot |-> f.slot,
     target |-> f.target, body |-> r.body, changed |-> r.changed,
     should_send |-> r.should_send, written |-> r.written,
     raised |-> FALSE]

\* the step that reports ev is one in which the awaited request raised
Raised(ev) == [ev EXCEPT !.raised = TRUE]

Finished(f, outcome) == Report(f, outcome, NoResult)

NoDone == Finished(IdleFrame, "none")

\* faulty variant of NeedParam: a token of exactly the maximum age is
\* taken as expired
NeedParam_at_max_age(cl, t) == IsNone(cl.param) \/ (t - cl.param_ts) >= MaxAge

\* fetch_json line 148: is a GET of the landing page needed first
NeedParam(cl, t) == IsNone(cl.param) \/ (t - cl.param_ts) > MaxAge

\* faulty variant of Eligible: one of the two flags is enough
Eligible_either(approved, cfg) == approved \/ cfg.auto_send

\* lines 802 and 899: the eligibility gate of scheduled delivery
Eligible(approved, cfg) == approved /\ cfg.auto_send

\* lines 794-809 and fetch_json up to its first await.
\* Result: [frame, done]: the activation is suspended (frame.pc # "idle")
\* or it has finished (done says how).
SfcEnter(chat_id, force, test, tickNow) ==
    LET f0 == [IdleFrame EXCEPT !.chat = chat_id, !.force = force,
                                !.test = test, !.tickNow = tickNow, !.now = now]
        ch == get_chat(db, chat_id)
    IN IF IsNone(ch) THEN [frame |-> IdleFrame, done |-> Finished(f0, "no_chat")]
       ELSE
        LET cfg == ConfigOf(Val(ch))
            f1 == [f0 EXCEPT !.approved = (Val(ch).approved # 0),
                             !.cfg = Some(cfg), !.state = Some(StateOf(Val(ch)))]
        IN IF ~force /\ ~Eligible(f1.approved, cfg)
           THEN [frame |-> IdleFrame, done |-> Finished(f1, "not_eligible")]
           ELSE IF ~force /\ in_quiet(now, cfg.quiet)
           THEN [frame |-> IdleFrame, done |-> Finished(f1, "quiet")]
           ELSE IF NeedParam(client, now)
           THEN [frame |-> [f1 EXCEPT !.pc = "get1"], done |-> NoDone]
           ELSE [frame |-> [f1 EXCEPT !.pc = "post1", !.nposts = 1,
                                      !.tok = client.param],
                 done |-> NoDone]

AnyShown(cfg) == \E c \in Cats : Shown(CAT_BY_CAT[c], cfg) # {}

\* lines 842-845
ShouldSend(cfg, cur_changed, coin_changed, met_changed) ==
    IF cfg.only_if_changed THEN cur_changed \/ coin_changed \/ met_changed
    ELSE TRUE

\* faulty variant of SlotDone: any stored marker blocks the invocation
SlotDone_any_marker(force, state, slot) == ~force /\ state.last_slot # <<>>

\* lines 856-858: the duplicate guard of a scheduled invocation
SlotDone(force, state, slot) == ~force /\ state.last_slot = slot

\* the frame of an activation that awaits send_message (line 878)
SendFrame(f, slot) ==
    [IdleFrame EXCEPT !.pc = "send", !.chat = f.chat, !.force = f.force,
                      !.test = f.test, !.tickNow = f.tickNow, !.now = f.now,
                      !.slot = slot,
                      !.target = IF f.test THEN AdminId ELSE f.chat]

\* lines 811-877, from the return of client.fetch() to the await of
\* send_message. Result: [frame, done, db].
SfcFinish(f, body) ==
    LET cfg == Val(f.cfg)
        state == Val(f.state)
    IN IF ~body.obj /\ AnyShown(cfg)
       THEN [frame |-> IdleFrame, db |-> db,
             done |-> Report(f, "bad_body", [NoResult EXCEPT !.body = Some(body)])]
       ELSE
        LET cur == build_lines(CURRENCIES, cfg, body.data, state.last_values["cur"])
            coin == build_lines(COINS, cfg, body.data, state.last_values["coin"])
            met == build_lines(METALS, cfg, body.data, state.last_values["metal"])
            should_send == ShouldSend(cfg, cur.changed, coin.changed, met.changed)
            new_last_values == [c \in Cats |->
                CASE c = "cur" -> cur.new_last [] c = "coin" -> coin.new_last
                  [] OTHER -> met.new_last]
            slot == now_slot_tehran(f.now)
            state2 == [state EXCEPT !.last_values = new_last_values,
                                    !.last_slot = slot]
            r == [body |-> Some(body),
                  changed |-> cur.changed \/ coin.changed \/ met.changed,
                  should_send |-> should_send, written |-> <<>>]
            f2 == [f EXCEPT !.slot = slot]
        IN IF SlotDone(f.force, state, slot)
           THEN [frame |-> IdleFrame, db |-> db,
                 done |-> Report(f2, "dup_slot", r)]
           ELSE IF ~should_send /\ ~f.force
           THEN [frame |-> IdleFrame, db |-> set_state(db, f.chat, state2),
                 done |-> Report(f2, "suppressed",
                                 [r EXCEPT !.written = Some(state2)])]
           ELSE [frame |-> SendFrame(f, slot), db |-> set_state(db, f.chat, state2),
                 done |-> Report(f2, "sending",
                                 [r EXCEPT !.written = Some(state2)])]

--------------------------------------------------------------------------
(* Initial states: a freshly started process on an existing database *)

Cfg(auto, interval, quiet, only, sb, th, sel, trig) ==
    Some([auto_send |-> auto, interval_min |-> interval, quiet |-> quiet,
          only_if_changed |-> only, sellbuy |-> sb, threshold |-> th,
          selected |-> sel, triggers |-> trig])

Row(approved, config, state, updated_at) ==
    [present |-> TRUE, approved |-> approved, config |-> config,
     state |-> state, updated_at |-> updated_at]

Night == <<23, 0, 7, 0>>

\* 22:59 of day 0: the minute before the aligned minute 23:00, at which
\* the window 23:00-07:00 begins
StartTimes == {1379}

SeenA(slot) ==
    Some([last_values |-> [c \in Cats |->
              CASE c = "cur" -> [k \in {"usd", "eur"} |-> IF k = "usd" THEN 100 ELSE 120]
                [] c = "coin" -> <<>>
                [] OTHER -> [k \in {"btc"} |-> 50]],
          last_slot |-> slot])

OnlyUsd == [AllSelected EXCEPT !["cur"] = {"usd"}]
TrigUsd == [NoTriggers EXCEPT !["cur"] = {"usd"}]
TrigEur == [NoTriggers EXCEPT !["cur"] = {"eur"}]
\* usd alone, as the selection or as the triggers of a target
JustUsd == [c \in Cats |-> IF c = "cur" THEN {"usd"} ELSE {}]

\* approved, auto_send on, every minute, no window, every send
PlainRow(updated_at) ==
    Row(1, Cfg(TRUE, 1, <<>>, FALSE, "sell", 0, AllSelected, NoTriggers), <<>>,
        updated_at)

\* the rows of chat 1 under which scheduled delivery is explored
SchedRows ==
    { Row(0, <<>>, <<>>, 1),
      Row(0, Cfg(TRUE, 1, <<>>, FALSE, "sell", 0, AllSelected, NoTriggers), <<>>, 1),
      Row(1, Cfg(FALSE, 1, <<>>, FALSE, "sell", 0, AllSelected, NoTriggers), <<>>, 1),
      PlainRow(1),
      Row(1, Cfg(TRUE, 1, <<>>, TRUE, "sell", 0, AllSelected, NoTriggers), <<>>, 1),
      Row(1, Cfg(TRUE, 1, <<>>, TRUE, "sell", 4, AllSelected, NoTriggers), SeenA(<<>>), 1),
      Row(1, Cfg(TRUE, 5, Night, TRUE, "sell", 0, AllSelected, NoTriggers), SeenA(<<>>), 1),
      Row(1, Cfg(TRUE, 1, Night, FALSE, "sell", 0, AllSelected, NoTriggers), <<>>, 1),
      Row(1, Cfg(TRUE, 1, <<>>, FALSE, "sell", 0, AllSelected, NoTriggers),
          SeenA(now_slot_tehran(1380)), 1),
      Row(1, Cfg(TRUE, 1, <<>>, FALSE, "sell", 0, AllSelected, NoTriggers),
          SeenA(now_slot_tehran(1379)), 1),
      Row(1, Cfg(TRUE, 1, <<>>, TRUE, "sell", 0, JustUsd, JustUsd),
          SeenA(<<>>), 1) }

OneChat(row) == [c \in Chats |-> IF c = 1 THEN row ELSE NoRow]

SchedDatabases ==
    {OneChat(r) : r \in SchedRows}
      \cup {[c \in Chats |-> PlainRow(c)]}

\* the rows of chat 1 under which a forced delivery is explored
ForcedRows ==
    { PlainRow(1),
      Row(0, <<>>, <<>>, 1),
      Row(1, Cfg(TRUE, 1, Night, TRUE, "sell", 0, AllSelected, NoTriggers),
          SeenA(<<>>), 1) }

ForcedDatabases == {OneChat(r) : r \in ForcedRows}

Databases == {OneChat(PlainRow(1))}

\* main() has built the client and the application, sender_loop was
\* created and sleeps, nothing else runs
Started ==
    /\ now \in StartTimes
    /\ client = [param |-> None, param_ts |-> 0]
    /\ loop = [pc |-> "sleep", sleepAt |-> now, tickNow |-> 0, queue |-> <<>>,
               early |-> 0, fetches |-> 0]
    /\ frame = [p \in Procs |-> IdleFrame]
    /\ outbox = EmptyBag
    /\ done = NoDone
    /\ forced = 0
    /\ user_data = <<>>

Init == db \in Databases /\ Started

InitSched == db \in SchedDatabases /\ Started

InitForced == db \in ForcedDatabases /\ Started

--------------------------------------------------------------------------
(* The clock *)

Tick ==
    /\ \E s \in StartTimes : s <= now /\ now < s + MaxElapsed
    /\ now' = now + 1
    /\ done' = NoDone
    /\ UNCHANGED <<db, client, loop, frame, outbox, forced, user_data>>

--------------------------------------------------------------------------
(* sender_loop *)

\* line 888 returns: the minute has passed, or the timer fired while the
\* wall clock still shows the minute in which the sleep began
Woken == \/ now > loop.sleepAt
         \/ (now = loop.sleepAt /\ loop.early < MaxEarly)

EarlyCount == IF now > loop.sleepAt THEN loop.early ELSE loop.early + 1

\* lines 890-891 raise: list_chats is outside the loop's try
WakeListFails ==
    /\ loop.pc = "sleep" /\ Woken
    /\ loop' = [loop EXCEPT !.pc = "dead", !.early = EarlyCount]
    /\ done' = NoDone
    /\ UNCHANGED <<db, now, client, frame, outbox, forced, user_data>>

\* lines 890-895
Wake ==
    /\ loop.pc = "sleep" /\ Woken
    /\ LET chats == list_chats(db) IN
       IF chats = <<>>
       THEN loop' = [loop EXCEPT !.sleepAt = now, !.early = EarlyCount]
       ELSE loop' = [loop EXCEPT !.pc = "run", !.tickNow = now, !.queue = chats,
                                 !.early = EarlyCount, !.fetches = 0]
    /\ done' = NoDone
    /\ UNCHANGED <<db, now, client, frame, outbox, forced, user_data>>

\* lines 901-903
Interval(cfg) == IF cfg.interval_min < 1 THEN DefaultInterval ELSE cfg.interval_min

\* lines 898-907: is the row of this tick passed to send_for_chat
Due(ch, tickNow) ==
    LET cfg == ConfigOf(ch) IN
    /\ Eligible(ch.approved # 0, cfg)
    /\ MinuteOfHour(tickNow) % Interval(cfg) = 0
    /\ ~in_quiet(tickNow, cfg.quiet)

\* the for loop is exhausted: back to line 884
LoopSleep ==
    /\ loop.pc = "run" /\ frame["sched"].pc = "idle" /\ loop.queue = <<>>
    /\ loop' = [loop EXCEPT !.pc = "sleep", !.sleepAt = now, !.fetches = 0]
    /\ done' = NoDone
    /\ UNCHANGED <<db, now, client, frame, outbox, forced, user_data>>

\* lines 896-907: the row is not due: continue
LoopSkip ==
    /\ loop.pc = "run" /\ frame["sched"].pc = "idle" /\ loop.queue # <<>>
    /\ ~Due(db[Head(loop.queue)], loop.tickNow)
    /\ loop' = [loop EXCEPT !.queue = Tail(loop.queue)]
    /\ done' = NoDone
    /\ UNCHANGED <<db, now, client, frame, outbox, forced, user_data>>

\* line 908: send_for_chat(CTX, chat_id, force=False); fetches counts the
\* calls of client.fetch() (line 809) the iteration has made
LoopCall ==
    /\ loop.pc = "run" /\ frame["sched"].pc = "idle" /\ loop.queue # <<>>
    /\ Due(db[Head(loop.queue)], loop.tickNow)
    /\ LET r == SfcEnter(Head(loop.queue), FALSE, FALSE, loop.tickNow) IN
       /\ frame' = [frame EXCEPT !["sched"] = r.frame]
       /\ done' = r.done
       /\ loop' = [loop EXCEPT !.queue = Tail(loop.queue),
                                !.fetches = IF r.frame.pc = "idle" THEN @
                                            ELSE @ + 1]
    /\ UNCHANGED <<db, now, client, outbox, forced, user_data>>

--------------------------------------------------------------------------
(* on_cb: "sendnow" and "test" *)

\* lines 603-608 and 777-779
SendNow ==
    /\ frame["admin"].pc = "idle" /\ forced < MaxForced
    /\ \E c \in Chats, test \in BOOLEAN :
         /\ ~IsNone(get_chat(db, c))
         /\ LET r == SfcEnter(c, TRUE, test, now) IN
            /\ frame' = [frame EXCEPT !["admin"] = r.frame]
            /\ done' = r.done
    /\ forced' = forced + 1
    /\ UNCHANGED <<db, now, client, loop, outbox, user_data>>

--------------------------------------------------------------------------
(* BonbastClient.fetch_json, one await at a time, inside send_for_chat *)

\* faulty variant of StoreParam: the extracted token is dropped and the
\* cache keeps the token it had
StoreParam_stale(cl, tok, t) == [cl EXCEPT !.param_ts = t]

\* lines 142-143: the token of the page and the time are cached
StoreParam(cl, tok, t) == [cl EXCEPT !.param = Some(tok), !.param_ts = t]

\* the frame after a GET that yielded a token: the POST that follows it
\* carries self._param (lines 153, 159)
AfterGet(f, cl) ==
    [f EXCEPT !.pc = IF f.pc = "get1" THEN "post1" ELSE "post2",
              !.gets = f.gets + 1, !.nposts = f.nposts + 1, !.tok = cl.param]

\* _fetch_param succeeds: lines 132-144
GetOk(p) ==
    /\ frame[p].pc \in {"get1", "get2"}
    /\ \E tok \in Tokens :
         /\ client' = StoreParam(client, tok, now)
         /\ frame' = [frame EXCEPT ![p] =
                        AfterGet([frame[p] EXCEPT !.page = Some(tok)], client')]
    /\ done' = NoDone
    /\ UNCHANGED <<db, now, loop, outbox, forced, user_data>>

\* _fetch_param raises (the GET fails, or no token in the page): the
\* exception leaves fetch_json and send_for_chat
GetFail(p) ==
    /\ frame[p].pc \in {"get1", "get2"}
    /\ done' = Raised(Finished([frame[p] EXCEPT !.gets = frame[p].gets + 1],
                                "fetch_failed"))
    /\ frame' = [frame EXCEPT ![p] = IdleFrame]
    /\ UNCHANGED <<db, now, client, loop, outbox, forced, user_data>>

\* lines 153-155 / 159-161: a 2xx response with a JSON body is returned,
\* and send_for_chat runs on to its next await
PostReturns(p, bodies) ==
    /\ frame[p].pc \in {"post1", "post2"}
    /\ \E body \in bodies :
         LET r == SfcFinish(frame[p], body) IN
         /\ frame' = [frame EXCEPT ![p] = r.frame]
         /\ done' = r.done
         /\ db' = r.db
    /\ UNCHANGED <<now, client, loop, outbox, forced, user_data>>

PostOk(p) == PostReturns(p, Bodies)

\* the first POST raises: line 156 catches it and line 158 starts the GET
\* of the retry
Post1Fail(p) ==
    /\ frame[p].pc = "post1"
    /\ frame' = [frame EXCEPT ![p].pc = "get2", ![p].tok = None,
                              ![p].stale = frame[p].tok]
    /\ done' = Raised(NoDone)
    /\ UNCHANGED <<db, now, client, loop, outbox, forced, user_data>>

\* faulty variant of Post2Fail: the exception of the retry is swallowed
\* and send_for_chat goes on with an empty snapshot
Post2Fail_swallowed(p) ==
    /\ frame[p].pc = "post2"
    /\ LET r == SfcFinish(frame[p], [obj |-> TRUE, data |-> <<>>]) IN
       /\ frame' = [frame EXCEPT ![p] = r.frame]
       /\ done' = Raised(r.done)
       /\ db' = r.db
    /\ UNCHANGED <<now, client, loop, outbox, forced, user_data>>

\* the POST of the retry raises: the exception leaves fetch_json
Post2Fail(p) ==
    /\ frame[p].pc = "post2"
    /\ done' = Raised(Finished(frame[p], "fetch_failed"))
    /\ frame' = [frame EXCEPT ![p] = IdleFrame]
    /\ UNCHANGED <<db, now, client, loop, outbox, forced, user_data>>

--------------------------------------------------------------------------
(* line 878: bot.send_message *)

Message(f) == [to |-> f.target, chat |-> f.chat, slot |-> f.slot,
               force |-> f.force]

SendOk(p) ==
    /\ frame[p].pc = "send"
    /\ outbox' = outbox (+) SetToBag({Message(frame[p])})
    /\ done' = Finished(frame[p], "sent")
    /\ frame' = [frame EXCEPT ![p] = IdleFrame]
    /\ UNCHANGED <<db, now, client, loop, forced, user_data>>

\* faulty variant of SendFail: the exception is caught outside the for
\* loop, so the rows that were left in this tick are dropped
SendFail_aborts_tick(p) ==
    /\ frame[p].pc = "send"
    /\ done' = Raised(Finished(frame[p], "send_failed"))
    /\ frame' = [frame EXCEPT ![p] = IdleFrame]
    /\ loop' = IF p = "sched" THEN [loop EXCEPT !.queue = <<>>] ELSE loop
    /\ UNCHANGED <<db, now, client, outbox, forced, user_data>>

\* send_message raises: the exception leaves send_for_chat and is caught
\* by line 910 (scheduled) or by the handler's caller (forced)
SendFail(p) ==
    /\ frame[p].pc = "send"
    /\ done' = Raised(Finished(frame[p], "send_failed"))
    /\ frame' = [frame EXCEPT ![p] = IdleFrame]
    /\ UNCHANGED <<db, now, client, loop, outbox, forced, user_data>>

--------------------------------------------------------------------------
(* The whole program: sender_loop and the admin's forced sends *)

Next ==
    \/ Tick
    \/ WakeListFails
    \/ Wake
    \/ LoopSleep
    \/ LoopSkip
    \/ LoopCall
    \/ SendNow
    \/ \E p \in Procs : GetOk(p)
    \/ \E p \in Procs : GetFail(p)
    \/ \E p \in Procs : PostOk(p)
    \/ \E p \in Procs : Post1Fail(p)
    \/ \E p \in Procs : Post2Fail(p)
    \/ \E p \in Procs : SendOk(p)
    \/ \E p \in Procs : SendFail(p)

Spec == Init /\ [][Next]_vars

--------------------------------------------------------------------------
(* Scheduled delivery alone: sender_loop and the invocations it makes *)

NextSched ==
    \/ Tick
    \/ WakeListFails
    \/ Wake
    \/ LoopSleep
    \/ LoopSkip
    \/ LoopCall
    \/ GetOk("sched")
    \/ GetFail("sched")
    \/ PostOk("sched")
    \/ Post1Fail("sched")
    \/ Post2Fail("sched")
    \/ SendOk("sched")
    \/ SendFail("sched")

SpecSched == InitSched /\ [][NextSched]_vars

--------------------------------------------------------------------------
(* Forced delivery alone: the admin's "send now" and "test" *)

NextForced ==
    \/ Tick
    \/ SendNow
    \/ GetOk("admin")
    \/ GetFail("admin")
    \/ PostOk("admin")
    \/ Post1Fail("admin")
    \/ Post2Fail("admin")
    \/ SendOk("admin")
    \/ SendFail("admin")

SpecForced == InitForced /\ [][NextForced]_vars

--------------------------------------------------------------------------
(* Change detection: build_lines on drawn configurations, stored values  *)
(* and snapshots, applied by a scheduled invocation whose POST returns   *)

DetectThresholds == {-1, 0, 3}

DetectStates ==
    { <<>>,
      SeenA(<<>>),
      Some([EmptyState EXCEPT !.last_values["cur"] = [k \in {"eur"} |-> 120]]) }

DetectRows ==
    { Row(1, Cfg(TRUE, 1, <<>>, TRUE, "sell", th, sel, trig), st, 1) :
        th \in DetectThresholds, sel \in {AllSelected, OnlyUsd},
        trig \in {NoTriggers, TrigUsd, TrigEur}, st \in DetectStates }

DetectBodies ==
    { [SnapA EXCEPT !.data["usd1"] = usd, !.data["eur1"] = eur,
                    !.data["bitcoin"] = btc] :
        usd \in {JNum(97), JNum(98), JNum(100), JNum(101), JNum(102), JNum(103),
                 JNull},
        eur \in {JStr(<<"1", ",", "2", "0">>), JNum(125)},
        btc \in {JNum(50), JNum(55)} }
      \cup {SnapReset}

\* sender_loop has called send_for_chat for chat 1, a token is cached and
\* the POST is in flight
InitDetect ==
    /\ db \in {OneChat(r) : r \in DetectRows}
    /\ now \in StartTimes
    /\ client = [param |-> Some("t1"), param_ts |-> now]
    /\ loop = [pc |-> "run", sleepAt |-> now, tickNow |-> now, queue |-> <<>>,
               early |-> 0, fetches |-> 1]
    /\ frame = [p \in Procs |->
                  IF p = "sched" THEN SfcEnter(1, FALSE, FALSE, now).frame
                  ELSE IdleFrame]
    /\ outbox = EmptyBag
    /\ done = NoDone
    /\ forced = 0
    /\ user_data = <<>>

NextDetect ==
    \/ PostReturns("sched", DetectBodies)
    \/ SendOk("sched")
    \/ SendFail("sched")

SpecDetect == InitDetect /\ [][NextDetect]_vars

--------------------------------------------------------------------------
(* Quiet windows: in_quiet on drawn windows and times of day, applied by *)
(* the tick of a sender_loop that wakes at the drawn minute              *)

QuietWindows ==
    { <<>>, Night, <<7, 0, 23, 0>>, <<12, 0, 12, 0>>, <<9, 30, 17, 45>>,
      <<22, 59, 23, 1>>, <<0, 0, 0, 1>> }

\* minutes since midnight of day 0: 03:00, 06:59, 07:00, 09:29, 09:30,
\* 12:00, 17:44, 17:45, 22:58, 22:59, 23:00, 23:01, 23:30, and 00:00,
\* 00:01, 03:00 of day 1
QuietTimes ==
    { 180, 419, 420, 569, 570, 720, 1064, 1065, 1378, 1379, 1380, 1381, 1410,
      1440, 1441, 1620 }

\* chat 1 is eligible and due every minute; sender_loop went to sleep in
\* the minute before the drawn one
InitQuiet ==
    /\ db \in {OneChat(Row(1, Cfg(TRUE, 1, w, FALSE, "sell", 0, AllSelected,
                                  NoTriggers), <<>>, 1)) : w \in QuietWindows}
    /\ now \in QuietTimes
    /\ client = [param |-> None, param_ts |-> 0]
    /\ loop = [pc |-> "sleep", sleepAt |-> now - 1, tickNow |-> 0,
               queue |-> <<>>, early |-> 0, fetches |-> 0]
    /\ frame = [p \in Procs |-> IdleFrame]
    /\ outbox = EmptyBag
    /\ done = NoDone
    /\ forced = 0
    /\ user_data = <<>>

NextQuiet ==
    \/ Wake
    \/ LoopSkip
    \/ LoopCall

SpecQuiet == InitQuiet /\ [][NextQuiet]_vars

--------------------------------------------------------------------------
(* The token cache: a process that has been running, with no token or    *)
(* with a token it extracted some minutes ago                            *)

\* minutes since the cached token was extracted
TokenAges == {0, 9, 10, 11}

TokenCaches ==
    {[param |-> None, param_ts |-> 0]}
    \cup {[param |-> Some("t1"), param_ts |-> s - a] :
            s \in StartTimes, a \in TokenAges}

InitToken ==
    /\ db \in {OneChat(PlainRow(1)), [c \in Chats |-> PlainRow(c)]}
    /\ now \in StartTimes
    /\ client \in TokenCaches
    /\ loop = [pc |-> "sleep", sleepAt |-> now, tickNow |-> 0, queue |-> <<>>,
               early |-> 0, fetches |-> 0]
    /\ frame = [p \in Procs |-> IdleFrame]
    /\ outbox = EmptyBag
    /\ done = NoDone
    /\ forced = 0
    /\ user_data = <<>>

NextToken ==
    \/ Tick
    \/ Wake
    \/ LoopSleep
    \/ LoopCall
    \/ GetOk("sched")
    \/ GetFail("sched")
    \/ PostOk("sched")
    \/ Post1Fail("sched")
    \/ Post2Fail("sched")
    \/ SendOk("sched")
    \/ SendFail("sched")

SpecToken == InitToken /\ [][NextToken]_vars

--------------------------------------------------------------------------
(* Two fetches at once: sender_loop has called send_for_chat for chat 1, *)
(* an admin has pressed "send now" or "test" for it, no usable token is  *)
(* cached, and both activations await the landing page (line 149)        *)

InitRace ==
    /\ db \in {OneChat(PlainRow(1))}
    /\ now \in StartTimes
    /\ client \in {[param |-> None, param_ts |-> 0],
                   [param |-> Some("t1"), param_ts |-> now - (MaxAge + 1)]}
    /\ loop = [pc |-> "run", sleepAt |-> now, tickNow |-> now, queue |-> <<>>,
               early |-> 0, fetches |-> 1]
    /\ \E test \in BOOLEAN :
         frame = [p \in Procs |->
                    IF p = "sched" THEN SfcEnter(1, FALSE, FALSE, now).frame
                    ELSE SfcEnter(1, TRUE, test, now).frame]
    /\ outbox = EmptyBag
    /\ done = NoDone
    /\ forced = 1
    /\ user_data = <<>>

NextRace ==
    \/ \E p \in Procs : GetOk(p)
    \/ \E p \in Procs : GetFail(p)
    \/ \E p \in Procs : PostOk(p)
    \/ \E p \in Procs : Post1Fail(p)
    \/ \E p \in Procs : Post2Fail(p)
    \/ \E p \in Procs : SendOk(p)
    \/ \E p \in Procs : SendFail(p)

SpecRace == InitRace /\ [][NextRace]_vars

--------------------------------------------------------------------------
(* Registration: /register in a chat, and the bot's own membership       *)
(* updates. outbox holds the rate messages of line 878 only; the reply   *)
(* of /register and the notice to the admins are not among them.         *)

\* cmd_register lines 445-456, and on_my_chat_member lines 468-478 (the bot
\* became member or administrator of the chat)
Register(c) ==
    /\ db' = upsert_chat(db, c, now)
    /\ done' = [NoDone EXCEPT !.pc = "registered", !.chat = c]
    /\ UNCHANGED <<now, client, loop, frame, outbox, forced, user_data>>

\* on_my_chat_member lines 479-480: the bot left or was kicked
Unregister(c) ==
    /\ db' = remove_chat(db, c)
    /\ done' = [NoDone EXCEPT !.pc = "unregistered", !.chat = c]
    /\ UNCHANGED <<now, client, loop, frame, outbox, forced, user_data>>

\* the tables the handlers are explored on: chat 1 absent or with one of
\* the rows of the forced sends, chat 2 absent or plain
StoreDatabases ==
    {[c \in Chats |-> IF c = 1 THEN r1 ELSE r2] :
        r1 \in ForcedRows \cup {NoRow}, r2 \in {NoRow, PlainRow(2)}}

InitStore == db \in StoreDatabases /\ Started

\* the handlers that call Storage's writing methods: registration, removal
\* and a forced send (set_state)
NextStore ==
    \/ Tick
    \/ \E c \in Chats : Register(c)
    \/ \E c \in Chats : Unregister(c)
    \/ SendNow
    \/ GetOk("admin")
    \/ PostOk("admin")
    \/ SendOk("admin")

SpecStore == InitStore /\ [][NextStore]_vars

--------------------------------------------------------------------------
(* Administrative handlers: on_cb (the buttons of the panel) and on_text  *)
(* (the text an admin sends after an "ask" or "import" button)            *)

\* q.data split at "|": parts[0] is action, parts[1] chat, and parts[2],
\* parts[3] are a category and a code, a mode or a number
Cb(action, chat, cat, code, n) ==
    [action |-> action, chat |-> chat, cat |-> cat, code |-> code, n |-> n]

\* kb_interval lines 350-357 and kb_threshold lines 397-399
IntervalButtons == {5, 10, 15, 30, 60}
ThresholdButtons == {0, 1000, 5000}

AskKinds == {"interval", "quiet", "threshold"}

\* the callback data of the buttons the keyboards offer (lines 230-403)
Callbacks ==
    UNION {
        {Cb("approve", c, "", "", 0), Cb("auto", c, "", "", 0),
         Cb("toggle", c, "", "only", 0), Cb("clearquiet", c, "", "", 0),
         Cb("import", c, "", "", 0), Cb("panel", c, "", "", 0)}
        \cup {Cb("togitem", c, f[1], FieldItem(f).code, 0) : f \in Fields}
        \cup {Cb("togtrig", c, f[1], FieldItem(f).code, 0) : f \in Fields}
        \cup {Cb("resetorder", c, cat, "", 0) : cat \in Cats}
        \cup {Cb("all", c, cat, "", n) : cat \in Cats, n \in {0, 1}}
        \cup {Cb("trigall", c, cat, "", n) : cat \in Cats, n \in {0, 1}}
        \cup {Cb("setint", c, "", "", n) : n \in IntervalButtons}
        \cup {Cb("setth", c, "", "", n) : n \in ThresholdButtons}
        \cup {Cb("setsb", c, "", mode, 0) : mode \in {"sell", "buy"}}
        \cup {Cb("ask", c, "", kind, 0) : kind \in AskKinds}
      : c \in Chats}

Toggle(set, x) == IF x \in set THEN set \ {x} ELSE set \cup {x}

\* the branches of on_cb that change cfg and call set_config (lines
\* 622-745): the configuration they store, None for the other branches
on_cb_config(cfg, cb) ==
    CASE cb.action = "auto" -> Some([cfg EXCEPT !.auto_send = ~@])
      [] cb.action = "toggle" /\ cb.code = "only" ->
            Some([cfg EXCEPT !.only_if_changed = ~@])
      [] cb.action = "togitem" ->
            Some([cfg EXCEPT !.selected[cb.cat] = Toggle(@, cb.code)])
      [] cb.action = "resetorder" ->
            Some([cfg EXCEPT !.selected[cb.cat] = {}])
      [] cb.action = "all" ->
            Some([cfg EXCEPT !.selected[cb.cat] =
                      IF cb.n = 1 THEN Codes(CAT_BY_CAT[cb.cat]) ELSE {}])
      [] cb.action = "togtrig" ->
            Some([cfg EXCEPT !.triggers[cb.cat] = Toggle(@, cb.code)])
      [] cb.action = "trigall" ->
            Some([cfg EXCEPT !.triggers[cb.cat] =
                      IF cb.n = 1 THEN cfg.selected[cb.cat] ELSE {}])
      [] cb.action = "setint" -> Some([cfg EXCEPT !.interval_min = cb.n])
      [] cb.action = "clearquiet" -> Some([cfg EXCEPT !.quiet = <<>>])
      [] cb.action = "setsb" ->
            Some([cfg EXCEPT !.sellbuy = IF cb.code = "buy" THEN "buy" ELSE "sell"])
      [] cb.action = "setth" -> Some([cfg EXCEPT !.threshold = cb.n])
      [] OTHER -> None

\* what a handler reports: pc names the branch taken, cfg is what it read,
\* written the configuration it passed to set_config, approved the flag it
\* passed to set_approved
AdminEvent(outcome, chat_id, approved, cfg, written) ==
    [NoDone EXCEPT !.pc = outcome, !.chat = chat_id, !.approved = approved,
                   !.cfg = cfg, !.written = written]

\* on_cb, lines 562-775, for the buttons other than "sendnow" and "test"
OnCb ==
    /\ \E cb \in Callbacks :
         LET ch == get_chat(db, cb.chat) IN
         IF IsNone(ch)
         THEN /\ done' = AdminEvent("cb_no_chat", cb.chat, FALSE, None, None)
              /\ UNCHANGED <<db, user_data>>
         ELSE
          LET cfg == ConfigOf(Val(ch))
              w == on_cb_config(cfg, cb)
          IN IF cb.action = "approve"
             THEN /\ db' = set_approved(db, cb.chat, Val(ch).approved = 0, now)
                  /\ done' = AdminEvent("set_approved", cb.chat,
                                        Val(ch).approved = 0, Some(cfg), None)
                  /\ UNCHANGED user_data
             ELSE IF cb.action \in {"ask", "import"}
             THEN /\ user_data' =
                        Some([chat_id |-> cb.chat,
                              kind |-> IF cb.action = "import" THEN "import"
                                       ELSE cb.code])
                  /\ done' = AdminEvent("asked", cb.chat, FALSE, Some(cfg), None)
                  /\ UNCHANGED db
             ELSE IF IsNone(w)
             THEN /\ done' = AdminEvent("shown", cb.chat, FALSE, Some(cfg), None)
                  /\ UNCHANGED <<db, user_data>>
             ELSE /\ db' = set_config(db, cb.chat, Val(w), now)
                  /\ done' = AdminEvent("set_config", cb.chat, FALSE, Some(cfg), w)
                  /\ UNCHANGED user_data
    /\ UNCHANGED <<now, client, loop, frame, outbox, forced>>

\* int(txt) for the texts of the model: an optional sign and digits
ParseInt(s) ==
    IF s # <<>> /\ Head(s) \in {"-", "+"}
    THEN IF IsNone(ParseFloat(Tail(s))) THEN None
         ELSE Some(IF Head(s) = "-" THEN 0 - Val(ParseFloat(Tail(s)))
                   ELSE Val(ParseFloat(Tail(s))))
    ELSE ParseFloat(s)

\* the text of a message, stripped (line 498): plain characters, a text of
\* the form HH:MM-HH:MM given by its four numbers, or the text of a JSON
\* object given by its keys and values
TxtChars(s) == [k |-> "chars", s |-> s, q |-> <<>>, obj |-> <<>>]
TxtQuiet(q) == [k |-> "quiet", s |-> <<>>, q |-> q, obj |-> <<>>]
TxtJson(obj) == [k |-> "json", s |-> <<>>, q |-> <<>>, obj |-> obj]

\* JSON objects an admin may paste: {}, and objects that set interval_min
\* (alone or with quiet)
ImportObjects ==
    { <<>>,
      [k \in {"interval_min"} |-> 0],
      [k \in {"interval_min"} |-> 0 - 3],
      [k \in {"interval_min"} |-> 7] }

Texts ==
    {TxtChars(s) : s \in {<<>>, <<"5">>, <<"0">>, <<"9", "0">>,
                          <<"1", "4", "4", "0">>, <<"1", "4", "4", "1">>,
                          <<"-", "3">>, <<"o", "f", "f">>, <<"a">>}}
    \cup {TxtQuiet(q) : q \in {<<23, 0, 7, 0>>, <<25, 0, 7, 0>>}}
    \cup {TxtJson(obj) : obj \in ImportObjects}

\* lines 543-546: default_config() updated, key by key, with the values of
\* the pasted object
MergeImport(obj) ==
    [k \in DOMAIN default_config |->
        IF k \in DOMAIN obj THEN obj[k] ELSE default_config[k]]

\* lines 508-551: the configuration on_text stores for a pending kind and a
\* text, None when the text is rejected
on_text_config(cfg, kind, txt) ==
    CASE kind = "interval" ->
            LET n == IF txt.k = "chars" THEN ParseInt(txt.s) ELSE None
            IN IF IsNone(n) \/ Val(n) < 1 \/ Val(n) > MinutesPerDay THEN None
               ELSE Some([cfg EXCEPT !.interval_min = Val(n)])
      [] kind = "quiet" ->
            IF txt.k = "chars" /\ txt.s \in {<<>>, <<"o", "f", "f">>}
            THEN Some([cfg EXCEPT !.quiet = <<>>])
            ELSE IF txt.k = "quiet" /\ ~IsNone(parse_quiet(txt.q))
            THEN Some([cfg EXCEPT !.quiet = txt.q])
            ELSE None
      [] kind = "threshold" ->
            LET n == IF txt.k = "chars" THEN ParseInt(txt.s) ELSE None
            IN IF IsNone(n) \/ Val(n) < 0 THEN None
               ELSE Some([cfg EXCEPT !.threshold = Val(n)])
      [] OTHER ->
            IF txt.k = "json" THEN Some(MergeImport(txt.obj)) ELSE None

\* on_text, lines 483-559, for an admin in the private chat with a PENDING
\* request
OnText ==
    /\ user_data # None
    /\ \E txt \in Texts :
         LET chat_id == Val(user_data).chat_id
             ch == get_chat(db, chat_id)
         IN IF IsNone(ch)
            THEN /\ done' = AdminEvent("cb_no_chat", chat_id, FALSE, None, None)
                 /\ UNCHANGED db
            ELSE LET cfg == ConfigOf(Val(ch))
                     w == on_text_config(cfg, Val(user_data).kind, txt)
                 IN IF IsNone(w)
                    THEN /\ done' = AdminEvent("rejected", chat_id, FALSE,
                                               Some(cfg), None)
                         /\ UNCHANGED db
                    ELSE /\ db' = set_config(db, chat_id, Val(w), now)
                         /\ done' = AdminEvent("set_config", chat_id, FALSE,
                                               Some(cfg), w)
    /\ user_data' = None
    /\ UNCHANGED <<now, client, loop, frame, outbox, forced>>

\* the tables the handlers are explored on: chat 1 absent, new, or with
\* settings of its own; chat 2 absent or plain
AdminRows ==
    { NoRow, Row(0, <<>>, <<>>, 1),
      Row(1, Cfg(TRUE, 1, Night, TRUE, "sell", 0, JustUsd, JustUsd),
          SeenA(<<>>), 1) }

AdminDatabases ==
    {[c \in Chats |-> IF c = 1 THEN r1 ELSE r2] :
        r1 \in AdminRows, r2 \in {NoRow, PlainRow(2)}}

InitAdmin == db \in AdminDatabases /\ Started

NextAdmin ==
    \/ OnCb
    \/ OnText
    \/ \E c \in Chats : Register(c)

SpecAdmin == InitAdmin /\ [][NextAdmin]_vars

--------------------------------------------------------------------------
(* A forced send across the minute: an admin pressed "send now" or       *)
(* "test" for chat 1 at 22:59 and the invocation awaits the response of  *)
(* its POST (line 153) while the clock and sender_loop go on             *)

InitOverlap ==
    /\ db = OneChat(PlainRow(1))
    /\ now \in StartTimes
    /\ client = [param |-> Some("t1"), param_ts |-> now]
    /\ loop = [pc |-> "sleep", sleepAt |-> now, tickNow |-> 0, queue |-> <<>>,
               early |-> 0, fetches |-> 0]
    /\ \E test \in BOOLEAN :
         frame = [p \in Procs |->
                    IF p = "admin" THEN SfcEnter(1, TRUE, test, now).frame
                    ELSE IdleFrame]
    /\ outbox = EmptyBag
    /\ done = NoDone
    /\ forced = 1
    /\ user_data = <<>>

NextOverlap ==
    \/ Tick
    \/ Wake
    \/ LoopSleep
    \/ LoopCall
    \/ \E p \in Procs : PostOk(p)
    \/ \E p \in Procs : SendOk(p)
    \/ \E p \in Procs : SendFail(p)

SpecOverlap == InitOverlap /\ [][NextOverlap]_vars

--------------------------------------------------------------------------
(* A tick that outlasts its minute: the tick of 22:58 called             *)
(* send_for_chat for the first chat of the list, and at 22:59 the        *)
(* invocation still awaits the response of its POST (line 153)           *)

\* chat 2, every minute, is first in the list; chat 1 follows it, every
\* minute or every second minute
LateDatabases ==
    { OneChat(PlainRow(1)), [c \in Chats |-> PlainRow(c)],
      [c \in Chats |->
         IF c = 1
         THEN Row(1, Cfg(TRUE, 2, <<>>, FALSE, "sell", 0, AllSelected,
                         NoTriggers), <<>>, 1)
         ELSE PlainRow(c)] }

InitLate ==
    /\ db \in LateDatabases
    /\ now \in StartTimes
    /\ client = [param |-> Some("t1"), param_ts |-> now - 1]
    /\ loop = [pc |-> "run", sleepAt |-> now - 2, tickNow |-> now - 1,
               queue |-> Tail(list_chats(db)), early |-> 0, fetches |-> 1]
    /\ frame = [p \in Procs |->
                  IF p = "sched"
                  THEN [SfcEnter(Head(list_chats(db)), FALSE, FALSE,
                                 now - 1).frame EXCEPT !.now = now - 1]
                  ELSE IdleFrame]
    /\ outbox = EmptyBag
    /\ done = NoDone
    /\ forced = 0
    /\ user_data = <<>>

NextLate ==
    \/ Tick
    \/ Wake
    \/ LoopSleep
    \/ LoopCall
    \/ PostOk("sched")
    \/ SendOk("sched")
    \/ SendFail("sched")

SpecLate == InitLate /\ [][NextLate]_vars

--------------------------------------------------------------------------
(* Administration during a scheduled delivery: the tick has called       *)
(* send_for_chat for chat 1, the invocation awaits the response of its   *)
(* POST (line 153), and the admin presses buttons or the bot is removed  *)
(* from a chat meanwhile                                                 *)

InitRevoke ==
    /\ db \in {OneChat(PlainRow(1)), [c \in Chats |-> PlainRow(c)]}
    /\ now \in StartTimes
    /\ client = [param |-> Some("t1"), param_ts |-> now]
    /\ loop = [pc |-> "run", sleepAt |-> now - 1, tickNow |-> now,
               queue |-> <<>>, early |-> 0, fetches |-> 1]
    /\ frame = [p \in Procs |->
                  IF p = "sched" THEN SfcEnter(1, FALSE, FALSE, now).frame
                  ELSE IdleFrame]
    /\ outbox = EmptyBag
    /\ done = NoDone
    /\ forced = 0
    /\ user_data = <<>>

NextRevoke ==
    \/ OnCb
    \/ \E c \in Chats : Unregister(c)
    \/ PostOk("sched")
    \/ SendOk("sched")
    \/ SendFail("sched")

SpecRevoke == InitRevoke /\ [][NextRevoke]_vars

--------------------------------------------------------------------------
(* Intervals: the due test of line 904 for intervals the interval text   *)
(* accepts (lines 508-513), applied by the tick of a sender_loop that    *)
(* wakes at the drawn minute                                             *)

\* divisors of 60, a non-divisor below 60, and intervals above 60
IntervalSamples == {1, 5, 7, 15, 45, 60, 90, 120, MinutesPerDay}

\* minutes since midnight of day 0: 00:00, 21:00, 22:00, 22:07, 22:30,
\* 22:45, 22:56, 22:59, 23:00, and 00:00, 01:00 of day 1
IntervalTimes ==
    {0, 1260, 1320, 1327, 1350, 1365, 1376, 1379, 1380, 1440, 1500}

\* chat 1 is eligible with the drawn interval and no window; sender_loop
\* went to sleep in the minute before the drawn one
InitInterval ==
    /\ db \in {OneChat(Row(1, Cfg(TRUE, n, <<>>, FALSE, "sell", 0, AllSelected,
                                  NoTriggers), <<>>, 1)) : n \in IntervalSamples}
    /\ now \in IntervalTimes
    /\ client = [param |-> None, param_ts |-> 0]
    /\ loop = [pc |-> "sleep", sleepAt |-> now - 1, tickNow |-> 0,
               queue |-> <<>>, early |-> 0, fetches |-> 0]
    /\ frame = [p \in Procs |-> IdleFrame]
    /\ outbox = EmptyBag
    /\ done = NoDone
    /\ forced = 0
    /\ user_data = <<>>

NextInterval ==
    \/ Wake
    \/ LoopSkip
    \/ LoopCall

SpecInterval == InitInterval /\ [][NextInterval]_vars

--------------------------------------------------------------------------
(* Who presses: the handlers with the user id of the update. user_data   *)
(* is the admin's; on_cb and on_text return for any other user before    *)
(* they look at theirs                                                   *)

ADMIN_IDS == {AdminId}

\* a user id that is not in ADMIN_IDS
Strangers == {7}

Users == ADMIN_IDS \cup Strangers

\* faulty variant of is_admin: every user passes
is_admin_anyone(user_id, admin_ids) == TRUE

\* lines 119-120
is_admin(user_id, admin_ids) == user_id \in admin_ids

\* the handler returned at its is_admin test
Denied ==
    /\ done' = AdminEvent("denied", 0, FALSE, None, None)
    /\ UNCHANGED <<db, now, client, loop, frame, outbox, forced, user_data>>

\* on_cb, lines 562-775, for a callback query of user uid
OnCbBy(uid) == IF is_admin(uid, ADMIN_IDS) THEN OnCb ELSE Denied

\* on_cb, lines 568-572 and 776-779: "sendnow" or "test" pressed by uid
SendNowBy(uid) == IF is_admin(uid, ADMIN_IDS) THEN SendNow ELSE Denied

\* on_text, lines 483-559, for a text message of user uid
OnTextBy(uid) == IF is_admin(uid, ADMIN_IDS) THEN OnText ELSE Denied

InitAccess == db \in AdminDatabases /\ Started

\* /register has no is_admin test (lines 445-456)
NextAccess ==
    \/ \E uid \in Users : OnCbBy(uid)
    \/ \E uid \in Users : SendNowBy(uid)
    \/ \E uid \in Users : OnTextBy(uid)
    \/ \E c \in Chats : Register(c)

SpecAccess == InitAccess /\ [][NextAccess]_vars

--------------------------------------------------------------------------
(* Properties                                                            *)
(* They are stated over what the program does: the messages delivered    *)
(* (outbox), the rows of the table (db), the requests an activation made *)
(* and how it ended (done), and the activations under way (frame).       *)

\* the last step advanced a scheduled (non-forced) activation to its end
\* or to its send
ScheduledEvent ==
    /\ done.pc # "none" /\ ~done.force
    /\ done.pc \notin {"registered", "unregistered", "cb_no_chat",
                       "set_approved", "set_config", "asked", "shown",
                       "rejected", "denied"}

\* the activation made at least one HTTP request
Fetched(ev) == ev.gets + ev.nposts > 0

\* the last step ran lines 811-858: change detection on a returned body
Detected == done.pc \in {"dup_slot", "suppressed", "sending"}

\* approved and auto_send, as the table has them
RowEligible(c) ==
    db[c].present /\ db[c].approved # 0 /\ ConfigOf(db[c]).auto_send

\* time t lies in the window <<h1, m1, h2, m2>>: start <= t < end, or,
\* for a window that wraps past midnight, t >= start or t < end
QuietAt(t, w) ==
    /\ w # <<>>
    /\ LET start == w[1] * MinutesPerHour + w[2]
           end == w[3] * MinutesPerHour + w[4]
           tod == t % MinutesPerDay
       IN \/ (start < end /\ start <= tod /\ tod < end)
          \/ (start > end /\ (tod >= start \/ tod < end))

WindowOf(c) == ConfigOf(db[c]).quiet

SlotTime(slot) ==
    slot[1] * MinutesPerDay + slot[2] * MinutesPerHour + slot[3]

\* the row of chat c stores, for every selected field with a numeric value
\* in data, that value
FreshStored(c, cfg, data) ==
    \A f \in Fields :
        LET it == FieldItem(f)
            num == ItemNum(it, cfg, data)
            stored == StateOf(db[c]).last_values[f[1]]
        IN (it.code \in cfg.selected[f[1]] /\ ~IsNone(num))
              => (it.code \in DOMAIN stored /\ stored[it.code] = Val(num))

\* C1: for every target and every minute slot, the scheduled invocations
\* for that target within that slot deliver at most one message
C1_OneMessagePerSlot ==
    \A m \in BagToSet(outbox) : ~m.force => CopiesIn(m, outbox) <= 1

\* C2: scheduled delivery fetches for, writes the state of, or sends to a
\* target only if its row is approved and has auto_send on; an invocation
\* that ended at the quiet gate, the duplicate guard or the only-on-change
\* gate had passed that check
C2_OnlyEligibleTargets ==
    /\ frame["sched"].pc # "idle" => RowEligible(frame["sched"].chat)
    /\ (ScheduledEvent /\ done.pc \notin {"not_eligible", "no_chat"}) =>
            RowEligible(done.chat)
    /\ (ScheduledEvent /\ done.pc \in {"quiet", "dup_slot", "suppressed"}) =>
            (done.approved /\ Val(done.cfg).auto_send)
    /\ (ScheduledEvent /\ done.pc = "not_eligible") =>
            (~Fetched(done) /\ IsNone(done.written))
    /\ \A m \in BagToSet(outbox) : ~m.force => RowEligible(m.chat)

\* a tick at an aligned minute went through the rows and passed over
\* chat 1, which has auto_send on but is not approved
C2_Witness ==
    /\ loop.pc = "run" /\ loop.queue = <<>> /\ frame["sched"].pc = "idle"
    /\ db[1].present /\ db[1].approved = 0 /\ ConfigOf(db[1]).auto_send
    /\ MinuteOfHour(loop.tickNow) % Interval(ConfigOf(db[1])) = 0
    /\ outbox = EmptyBag

\* C3: one fetch makes at most two POSTs, and it fails only when both
\* the primary POST and the POST of the retry failed
C3_FailsIffBothPostsFail ==
    /\ \A p \in Procs : frame[p].nposts <= 2
    /\ done.nposts <= 2
    /\ done.pc = "fetch_failed" => done.nposts = 2

\* C4: when the fetch of a scheduled invocation ends in an exception, the
\* invocation ends there: it writes no state, the row's state is the one it
\* read, and no message is on its way
C4_FailedFetchLeavesState ==
    (ScheduledEvent /\ done.raised /\ Fetched(done)) =>
        /\ done.pc = "fetch_failed"
        /\ IsNone(done.body) /\ IsNone(done.written)
        /\ StateOf(db[done.chat]) = Val(done.state)
        /\ frame["sched"].pc = "idle"

\* the primary POST and the POST of the retry both failed
C4_Witness ==
    /\ ScheduledEvent /\ done.raised /\ done.pc = "fetch_failed"
    /\ done.nposts = 2

\* C5: no failure while handling a tick ends sender_loop
C5_LoopSurvives == loop.pc # "dead"

\* C6: a forced delivery for a target inside its quiet window, with
\* only-on-change set and nothing changed, whose fetch returned a snapshot,
\* sends its message and persists the refreshed last_values and the slot
C6_ForcedSendPersists ==
    (/\ done.force /\ Detected
     /\ QuietAt(done.now, Val(done.cfg).quiet)
     /\ Val(done.cfg).only_if_changed /\ ~done.changed)
      => /\ done.pc = "sending" /\ Fetched(done)
         /\ frame["admin"].pc = "send"
         /\ StateOf(db[done.chat]).last_slot = done.slot
         /\ FreshStored(done.chat, Val(done.cfg), Val(done.body).data)

\* C7: when the time of a scheduled tick, or the time send_for_chat reads,
\* lies inside the target's quiet window, no request is made for the
\* target, detection does not run and nothing is sent to it
C7_QuietTickDoesNothing ==
    /\ frame["sched"].pc # "idle" =>
          /\ ~QuietAt(frame["sched"].tickNow, WindowOf(frame["sched"].chat))
          /\ ~QuietAt(frame["sched"].now, WindowOf(frame["sched"].chat))
    /\ (/\ ScheduledEvent /\ db[done.chat].present
        /\ \/ QuietAt(done.tickNow, WindowOf(done.chat))
           \/ QuietAt(done.now, WindowOf(done.chat)))
          => /\ done.pc \in {"quiet", "not_eligible"}
             /\ ~Fetched(done) /\ IsNone(done.body) /\ IsNone(done.written)
    /\ \A m \in BagToSet(outbox) :
          ~m.force => ~QuietAt(SlotTime(m.slot), WindowOf(m.chat))

\* a tick at 23:00 went through the rows and passed over chat 1, which is
\* eligible, due by its interval, and has the window 23:00-07:00
C7_Witness ==
    /\ loop.pc = "run" /\ loop.queue = <<>> /\ frame["sched"].pc = "idle"
    /\ RowEligible(1)
    /\ MinuteOfHour(loop.tickNow) % Interval(ConfigOf(db[1])) = 0
    /\ QuietAt(loop.tickNow, WindowOf(1))
    /\ outbox = EmptyBag

\* a trigger field of the configuration with a numeric current value
TriggerField(f, cfg, data) ==
    /\ FieldItem(f).code \in TriggerCodes(cfg, f[1])
    /\ ~IsNone(ItemNum(FieldItem(f), cfg, data))

\* every trigger field with a current value has a stored previous value
AllSeen(cfg, data, last) ==
    \A f \in Fields :
        TriggerField(f, cfg, data) => FieldItem(f).code \in DOMAIN last[f[1]]

\* C8: after a scheduled tick on which only-on-change is set, every trigger
\* field had a previous value and none changed, no message is on its way
\* and the row holds the values of the snapshot just fetched
C8_SuppressedTickRefreshes ==
    (/\ ScheduledEvent /\ Detected /\ done.pc # "dup_slot"
     /\ Val(done.cfg).only_if_changed /\ ~done.changed
     /\ AllSeen(Val(done.cfg), Val(done.body).data, Val(done.state).last_values))
      => /\ done.pc = "suppressed" /\ frame["sched"].pc = "idle"
         /\ FreshStored(done.chat, Val(done.cfg), Val(done.body).data)

\* C9: detection reports a change whenever a trigger field has a numeric
\* current value and no stored previous value
C9_FirstObservationChanges ==
    Detected =>
        LET cfg == Val(done.cfg)
            data == Val(done.body).data
            last == Val(done.state).last_values
        IN (\E f \in Fields :
                /\ TriggerField(f, cfg, data)
                /\ FieldItem(f).code \notin DOMAIN last[f[1]])
             => done.changed

\* the difference between the current and the stored value of field f
Diff(f, cfg, data, last) ==
    Abs(Val(ItemNum(FieldItem(f), cfg, data)) - last[f[1]][FieldItem(f).code])

\* C10 as claimed: under a threshold of zero or more, detection reports a
\* change iff some trigger field with both values differs by at least the
\* positive threshold, or differs at all under threshold zero
C10_AnyNonzeroDifference ==
    Detected =>
        LET cfg == Val(done.cfg)
            data == Val(done.body).data
            last == Val(done.state).last_values
        IN cfg.threshold >= 0 =>
           (done.changed <=>
            \E f \in Fields :
                /\ TriggerField(f, cfg, data)
                /\ FieldItem(f).code \in DOMAIN last[f[1]]
                /\ \/ (cfg.threshold > 0 /\ Diff(f, cfg, data, last) >= cfg.threshold)
                   \/ (cfg.threshold = 0 /\ Diff(f, cfg, data, last) # 0))

\* C10 as amended: detection reports a change iff some selected trigger
\* field with both values differs by at least a positive threshold, or,
\* under a threshold of zero or less, by more than the tolerance 1e-9
C10_ThresholdRule ==
    Detected =>
        LET cfg == Val(done.cfg)
            data == Val(done.body).data
            last == Val(done.state).last_values
        IN done.changed <=>
            \E f \in Fields :
                /\ TriggerField(f, cfg, data)
                /\ FieldItem(f).code \in cfg.selected[f[1]]
                /\ FieldItem(f).code \in DOMAIN last[f[1]]
                /\ \/ (cfg.threshold > 0 /\ Diff(f, cfg, data, last) >= cfg.threshold)
                   \/ (cfg.threshold <= 0 /\ Diff(f, cfg, data, last) > EPS)

\* threshold 3, usd moved by exactly 3 and eur did not move: a change
C10_Witness ==
    /\ Detected /\ done.changed
    /\ Val(done.cfg).threshold = 3
    /\ Val(done.cfg).triggers["cur"] = {"usd"}
    /\ "usd" \in DOMAIN Val(done.state).last_values["cur"]
    /\ Diff(<<"cur", 1>>, Val(done.cfg), Val(done.body).data,
            Val(done.state).last_values) = 3

\* a selected field with a current and a stored value whose difference
\* passes the threshold rule
Moved(f, cfg, data, last) ==
    /\ FieldItem(f).code \in cfg.selected[f[1]]
    /\ ~IsNone(ItemNum(FieldItem(f), cfg, data))
    /\ FieldItem(f).code \in DOMAIN last[f[1]]
    /\ \/ (cfg.threshold > 0 /\ Diff(f, cfg, data, last) >= cfg.threshold)
       \/ (cfg.threshold <= 0 /\ Diff(f, cfg, data, last) > EPS)

\* the trigger codes configured in any category
ConfiguredTriggers(cfg) == UNION {cfg.triggers[c] : c \in Cats}

\* C11 as claimed: with only-on-change, a target without configured
\* triggers delivers iff some selected field moved, and a target with
\* configured triggers delivers only if a configured trigger field moved
C11_TargetWideTriggers ==
    (Detected /\ Val(done.cfg).only_if_changed) =>
        LET cfg == Val(done.cfg)
            data == Val(done.body).data
            last == Val(done.state).last_values
        IN IF ConfiguredTriggers(cfg) = {}
           THEN done.should_send <=> \E f \in Fields : Moved(f, cfg, data, last)
           ELSE done.should_send =>
                    \E f \in Fields : /\ FieldItem(f).code \in ConfiguredTriggers(cfg)
                                      /\ Moved(f, cfg, data, last)

\* C11 as amended: with only-on-change, the target delivers iff a field
\* moved that is, in a category without configured triggers, any selected
\* field, and in a category with configured triggers, a configured one
C11_TriggersPerCategory ==
    (Detected /\ Val(done.cfg).only_if_changed) =>
        LET cfg == Val(done.cfg)
            data == Val(done.body).data
            last == Val(done.state).last_values
        IN done.should_send <=>
            \E f \in Fields :
                /\ Moved(f, cfg, data, last)
                /\ \/ cfg.triggers[f[1]] = {}
                   \/ FieldItem(f).code \in cfg.triggers[f[1]]

\* usd is the configured trigger; eur, selected, moved and nothing else
\* did: no delivery
C11_Witness ==
    /\ Detected /\ done.pc = "suppressed"
    /\ Val(done.cfg).triggers["cur"] = {"usd"}
    /\ Moved(<<"cur", 2>>, Val(done.cfg), Val(done.body).data,
             Val(done.state).last_values)

\* the tick has gone through the rows
TickPassed == loop.pc = "run" /\ loop.queue = <<>>

\* C12: a tick at time of day t passes over an eligible, due target iff t
\* lies in its window [start, end): start <= t < end, or t >= start or
\* t < end when the window wraps; never when start = end. For
\* 23:00-07:00, 23:30 and 03:00 are quiet, 12:00 and 07:00 are not
C12_QuietContainment ==
    TickPassed =>
        /\ frame["sched"].pc = "idle" <=> QuietAt(loop.tickNow, WindowOf(1))
        /\ (WindowOf(1) # <<>> /\ WindowOf(1)[1] = WindowOf(1)[3]
              /\ WindowOf(1)[2] = WindowOf(1)[4]) => frame["sched"].pc # "idle"
        /\ (WindowOf(1) = <<23, 0, 7, 0>> /\ loop.tickNow % 1440 \in {1410, 180})
              => frame["sched"].pc = "idle"
        /\ (WindowOf(1) = <<23, 0, 7, 0>> /\ loop.tickNow % 1440 \in {720, 420})
              => frame["sched"].pc # "idle"

\* the tick at 07:00 called send_for_chat for the target with window
\* 23:00-07:00
C12_Witness ==
    /\ TickPassed /\ WindowOf(1) = <<23, 0, 7, 0>> /\ loop.tickNow = 420
    /\ frame["sched"].pc = "get1"

\* C13: a target with interval n is called only at ticks whose
\* minute-of-hour is a multiple of n, and every minute gets its tick:
\* sender_loop goes back to sleep within the minute of the tick it handled,
\* so that its wake-up at the next boundary is the tick of the next minute
C13_NextAlignedTick ==
    [][/\ (frame["sched"].pc = "idle" /\ frame'["sched"].pc # "idle") =>
              MinuteOfHour(loop.tickNow)
                  % ConfigOf(db[frame'["sched"].chat]).interval_min = 0
       /\ (loop.pc = "run" /\ loop'.pc = "sleep") =>
              loop'.sleepAt = loop.tickNow]_vars

\* C14: when the first POST of a fetch failed and the POST after the
\* re-extraction succeeds, the POST of the retry carries the token of the
\* page just read, the body of that response is what send_for_chat goes on
\* with, and the cache holds the token of that page afterwards
C14_RetryReturnsSnapshot ==
    /\ frame["sched"].pc = "post2" =>
           /\ frame["sched"].page # None
           /\ frame["sched"].tok = frame["sched"].page
           /\ client.param = frame["sched"].page
    /\ (ScheduledEvent /\ done.nposts = 2 /\ done.pc # "fetch_failed") =>
           /\ ~done.raised
           /\ done.body # None
           /\ client.param = done.page

\* the cached token had expired: the first POST carried it and failed, the
\* page served another token, and the retry's response was processed
C14_Witness ==
    /\ Detected /\ ~done.force
    /\ done.nposts = 2 /\ done.gets = 1
    /\ done.stale # None /\ done.stale # done.page
    /\ client.param = done.page

\* C15: when a fetch fails (the primary attempt and the retry both raise),
\* the exception reaches the caller and the token cache is empty afterwards,
\* so that the next fetch reads the landing page before it posts
C15_FailedFetchEmptiesCache ==
    (ScheduledEvent /\ done.pc = "fetch_failed") =>
        /\ done.raised
        /\ IsNone(client.param)
        /\ NeedParam(client, now)

\* a JSON value that Python takes as true
Truthy(j) == (j.k = "num" /\ j.n # 0) \/ (j.k = "str" /\ j.s # <<>>)

\* C16: a body that is not a JSON object, or that carries a truthy reset
\* field, is never handed to send_for_chat as the snapshot of a fetch
C16_ResetBodyNeverReturned ==
    (ScheduledEvent /\ done.body # None) =>
        /\ Val(done.body).obj
        /\ ~Truthy(DataGet(Val(done.body).data, "reset"))

\* C17: in one tick client.fetch() is called at most once, however many
\* targets are due in it: one snapshot serves them all
C17_OneFetchPerTick == loop.fetches <= 1

\* the rows that follow chat c in the order list_chats returns
RowsAfter(chats, c) ==
    IF \E i \in 1..Len(chats) : chats[i] = c
    THEN SubSeq(chats, (CHOOSE i \in 1..Len(chats) : chats[i] = c) + 1,
                Len(chats))
    ELSE <<>>

\* C18: when send_message fails for one target of a tick, sender_loop is
\* still in its for loop with every row that followed that target left to
\* process, and no activation is pending: the rest of the tick goes on
C18_SendFailureIsLocal ==
    (ScheduledEvent /\ done.pc = "send_failed") =>
        /\ loop.pc = "run"
        /\ frame["sched"].pc = "idle"
        /\ loop.queue = RowsAfter(list_chats(db), done.chat)

\* the send for the first target of a tick failed and the second target,
\* which is due in this tick, is still to come
C18_Witness ==
    /\ ScheduledEvent /\ done.pc = "send_failed" /\ done.raised
    /\ loop.pc = "run" /\ loop.queue # <<>>
    /\ Due(db[Head(loop.queue)], loop.tickNow)

\* C19: for a target with only-on-change, threshold 0 and usd as its one
\* selected and trigger field, a scheduled tick whose usd value equals the
\* value recorded by the previous tick sends nothing, and a tick whose value
\* differs from it starts one send and leaves the new value recorded in the
\* row, so that the next tick compares against it
C19_ChangeTickRecordsValue ==
    (/\ ScheduledEvent /\ Detected /\ done.pc # "dup_slot"
     /\ Val(done.cfg).only_if_changed /\ Val(done.cfg).threshold = 0
     /\ Val(done.cfg).selected = JustUsd /\ Val(done.cfg).triggers = JustUsd
     /\ "usd" \in DOMAIN Val(done.state).last_values["cur"]
     /\ ~IsNone(ItemNum(CURRENCIES[1], Val(done.cfg), Val(done.body).data)))
      => LET v == Val(ItemNum(CURRENCIES[1], Val(done.cfg), Val(done.body).data))
             prev == Val(done.state).last_values["cur"]["usd"]
             stored == StateOf(db[done.chat]).last_values["cur"]
         IN /\ v = prev => done.pc = "suppressed"
            /\ Abs(v - prev) > EPS =>
                  /\ done.pc = "sending" /\ frame["sched"].pc = "send"
                  /\ "usd" \in DOMAIN stored /\ stored["usd"] = v

\* the rows of d and e for chat c agree on approval, configuration and
\* state
SameSettings(d, e, c) ==
    /\ e[c].present = d[c].present
    /\ e[c].approved = d[c].approved
    /\ e[c].config = d[c].config
    /\ e[c].state = d[c].state

\* C20: the statement of upsert_chat, run for a chat that has a row, keeps
\* that row's approval, configuration and state and every other row; after
\* a registration the row is as it was; and a row is gone after a step only
\* if that step is a removal of that chat
C20_RegisterKeepsRecord ==
    [][/\ \A c \in Chats : db[c].present =>
              /\ SameSettings(db, upsert_stmt(db, c, now), c)
              /\ \A k \in Chats \ {c} : upsert_stmt(db, c, now)[k] = db[k]
       /\ \A c \in Chats :
              (db[c].present /\ done'.pc = "registered" /\ done'.chat = c)
                  => SameSettings(db, db', c)
       /\ \A c \in Chats :
              (db[c].present /\ ~db'[c].present)
                  => (done'.pc = "unregistered" /\ done'.chat = c)]_vars

\* a chat that is approved and has a configuration and a state of its own
\* was registered again
C20_Witness ==
    /\ done.pc = "registered"
    /\ db[done.chat].present /\ db[done.chat].approved = 1
    /\ db[done.chat].config # <<>> /\ db[done.chat].state # <<>>

\* C21: after upsert_chat, set_approved, set_config or set_state has
\* returned for a target, get_chat and list_chats, on a new connection,
\* return the row with the value just written
C21_DurableWrites ==
    /\ done.pc = "registered" =>
           /\ ~IsNone(get_chat(db, done.chat))
           /\ \E i \in 1..Len(list_chats(db)) : list_chats(db)[i] = done.chat
    /\ (done.pc \in {"suppressed", "sending"} /\ done.written # None) =>
           /\ ~IsNone(get_chat(db, done.chat))
           /\ Val(get_chat(db, done.chat)).state = done.written
    /\ done.pc = "set_approved" =>
           /\ ~IsNone(get_chat(db, done.chat))
           /\ (Val(get_chat(db, done.chat)).approved # 0) = done.approved
    /\ done.pc = "set_config" =>
           /\ ~IsNone(get_chat(db, done.chat))
           /\ Val(get_chat(db, done.chat)).config = done.written

\* C22: a target's configuration carries a delivery mode, and once a
\* message has been sent to a target (as the first message, or as the
\* fallback of an edit that failed) the target's stored state records the
\* identifier of that message as its last message
C22_EditFallbackRecordsMessage ==
    (done.pc = "sent" /\ ~done.test) =>
        /\ "delivery_mode" \in DOMAIN ConfigOf(db[done.chat])
        /\ "last_message_id" \in DOMAIN StateOf(db[done.chat])

\* C23: once a scheduled tick has passed over an eligible target because
\* the tick's time lies in the target's quiet window, the target's stored
\* slot marker is the slot of that tick
C23_QuietTickMarksSlot ==
    (/\ TickPassed /\ RowEligible(1)
     /\ MinuteOfHour(loop.tickNow) % Interval(ConfigOf(db[1])) = 0
     /\ QuietAt(loop.tickNow, WindowOf(1)))
      => StateOf(db[1]).last_slot = now_slot_tehran(loop.tickNow)

\* C24: a scheduled invocation that reaches the duplicate guard with a
\* stored marker other than the slot of its own minute is not stopped by
\* it: it stores the new state and, when it should send, starts the send
C24_OtherSlotNeverBlocks ==
    (/\ ScheduledEvent /\ Detected
     /\ Val(done.state).last_slot # now_slot_tehran(done.now))
      => /\ done.pc \in {"suppressed", "sending"}
         /\ done.written # None
         /\ Val(done.written).last_slot = now_slot_tehran(done.now)
         /\ done.should_send =>
                (done.pc = "sending" /\ frame["sched"].pc = "send")

\* the row held the marker of 22:59 and the tick of 23:00 starts its send
C24_Witness ==
    /\ ScheduledEvent /\ done.pc = "sending" /\ frame["sched"].pc = "send"
    /\ Val(done.state).last_slot # <<>>
    /\ SlotTime(Val(done.state).last_slot) < SlotTime(done.slot)
    /\ MinuteOfHour(done.tickNow) % Interval(ConfigOf(db[done.chat])) = 0

\* C25: a fetch starts with a GET of the landing page iff no token is
\* cached or the cached token was acquired more than the maximum age ago;
\* otherwise it starts with a POST that carries the cached token, and no
\* GET was made for it
C25_GetIffTokenStale ==
    [][(frame["sched"].pc = "idle" /\ frame'["sched"].pc # "idle") =>
          /\ frame'["sched"].pc \in {"get1", "post1"}
          /\ frame'["sched"].pc = "get1" <=>
                 (client.param = <<>> \/ now - client.param_ts > MaxAge)
          /\ frame'["sched"].pc = "post1" =>
                 /\ frame'["sched"].tok = client.param
                 /\ frame'["sched"].gets = 0 /\ frame'["sched"].nposts = 1
                 /\ client' = client]_vars

\* a token of exactly the maximum age is posted without a GET
C25_Witness ==
    /\ frame["sched"].pc = "post1" /\ frame["sched"].gets = 0
    /\ frame["sched"].tok = client.param
    /\ frame["sched"].now - client.param_ts = MaxAge

\* a token one minute older than the maximum age is extracted again
C25_WitnessStale ==
    /\ frame["sched"].pc = "get1"
    /\ client.param # <<>>
    /\ frame["sched"].now - client.param_ts = MaxAge + 1

\* C26: when a fetch has returned a body, the acquisition time of the
\* cached token is the time of that response, whether or not the token was
\* extracted for this fetch
C26_SuccessRefreshesTimestamp ==
    (ScheduledEvent /\ done.body # None) =>
        /\ client.param # <<>>
        /\ client.param_ts = now

\* the step completes a GET of the landing page for activation p
GetCompletes(p) ==
    /\ frame[p].pc \in {"get1", "get2"}
    /\ frame'[p].pc \in {"post1", "post2"}

InFetch(pc) == pc \in {"get1", "post1", "get2", "post2"}

\* C27: when two fetches that both found no usable token run interleaved,
\* every POST in flight carries the token of the page its own fetch has
\* just read, the cache changes only when an extraction completes and then
\* holds the token of that extraction, and every fetch ends by returning a
\* body or by raising
C27_ConcurrentExtraction ==
    [][/\ \A p \in Procs :
             frame[p].pc \in {"post1", "post2"} =>
                 /\ frame[p].tok # <<>>
                 /\ frame[p].tok = frame[p].page
       /\ \A p \in Procs : GetCompletes(p) => client'.param = frame'[p].page
       /\ (\A p \in Procs : ~GetCompletes(p)) => client' = client
       /\ \A p \in Procs :
             (InFetch(frame[p].pc) /\ ~InFetch(frame'[p].pc)) =>
                 /\ done'.force = (p = "admin")
                 /\ \/ done'.body # <<>>
                    \/ (done'.pc = "fetch_failed" /\ done'.raised)]_vars

\* both activations have read the page, they got different tokens, both
\* POSTs are in flight and the cache holds the token read last
C27_Witness ==
    /\ frame["sched"].pc = "post1" /\ frame["admin"].pc = "post1"
    /\ frame["sched"].tok # frame["admin"].tok
    /\ frame["sched"].tok # <<>> /\ frame["admin"].tok # <<>>
    /\ client.param = frame["admin"].tok

\* the last step handed a state to set_state for chat done.chat
WroteState == done.pc \in {"suppressed", "sending"} /\ done.written # <<>>

\* the tables d and e hold the same state for chat k
SameState(d, e, k) == e[k].present = d[k].present /\ e[k].state = d[k].state

\* C28: the UPDATE a delivery invocation for target A makes leaves the row
\* of every other target as it is and changes, in A's row, neither the
\* approval nor the configuration; the statements of registration, removal
\* of another target, approval and configuration leave every stored state
\* as it is; and in no step does a stored state change unless the step is
\* a delivery for that target
C28_StateWrittenByOwnDelivery ==
    [][/\ WroteState' =>
             LET A == done'.chat
                 e == set_state_stmt(db, A, Val(done'.written), now)
             IN /\ \A B \in Chats \ {A} : e[B] = db[B] /\ db'[B] = db[B]
                /\ e[A].approved = db[A].approved /\ e[A].config = db[A].config
                /\ db'[A].approved = db[A].approved
                /\ db'[A].config = db[A].config
       /\ \A c \in Chats, k \in Chats :
             /\ db[k].present => SameState(db, upsert_stmt(db, c, now), k)
             /\ k # c => SameState(db, remove_stmt(db, c), k)
             /\ \A a \in BOOLEAN :
                    SameState(db, set_approved_stmt(db, c, a, now), k)
             /\ \A cb \in Callbacks :
                    LET w == on_cb_config(ConfigOf(db[c]), cb)
                    IN w # <<>> =>
                         SameState(db, set_config_stmt(db, c, Val(w), now), k)
       /\ \A k \in Chats :
             db'[k].state # db[k].state => (WroteState' /\ done'.chat = k)]_vars

\* a forced delivery for chat 1 handed its new state to set_state while
\* chat 2 has a row of its own
C28_Witness ==
    /\ WroteState /\ done.chat = 1 /\ done.force
    /\ db[2].present
    /\ Val(done.written) # StateOf(db[2])

C30_LastValuesWithinSelection ==
    WroteState =>
        \A c \in Cats :
            /\ DOMAIN Val(done.written).last_values[c]
                   \subseteq Val(done.cfg).selected[c]
            /\ DOMAIN StateOf(db[done.chat]).last_values[c]
                   \subseteq ConfigOf(db[done.chat]).selected[c]

\* slot a is not later than slot b; no marker is earlier than any slot
SlotLeq(a, b) == a = <<>> \/ (b # <<>> /\ SlotTime(a) <= SlotTime(b))

\* C31: the slot an invocation hands to set_state is not earlier than the
\* slot stored for the target, nor than the slot another invocation for
\* the same target has written before (it awaits its send_message, or its
\* message has been delivered)
C31_SlotMarkerNeverDecreases ==
    WroteState =>
        LET s == Val(done.written).last_slot IN
        /\ SlotLeq(StateOf(db[done.chat]).last_slot, s)
        /\ \A q \in Procs :
              frame[q].pc = "send" /\ frame[q].chat = done.chat
                  => SlotLeq(frame[q].slot, s)
        /\ \A m \in BagToSet(outbox) : m.chat = done.chat => SlotLeq(m.slot, s)

\* C32: no due minute lies between two ticks: when sender_loop wakes at
\* the boundary that follows the minute in which it went to sleep, no
\* minute after its previous tick and before this one is a minute at
\* which an approved, auto-send target outside its window is aligned
C32_NoDueMinuteSkipped ==
    [][(/\ loop.pc = "sleep" /\ loop'.pc = "run"
        /\ loop.tickNow # 0 /\ loop'.tickNow <= loop.sleepAt + 1) =>
           \A c \in Chats, m \in (loop.tickNow + 1)..(loop'.tickNow - 1) :
               ~(db[c].present /\ Due(db[c], m))]_vars

\* C33: the slot a scheduled invocation hands to set_state is the minute
\* of the tick that called it, and its minute-of-hour is a multiple of the
\* target's interval
C33_MarkerIsTickMinute ==
    (WroteState /\ ~done.force) =>
        LET s == Val(done.written).last_slot IN
        /\ s = now_slot_tehran(done.tickNow)
        /\ s[3] % Interval(Val(done.cfg)) = 0

\* the table as the statement of the handler reported by ev leaves it
TableAfter(ev) ==
    CASE ev.pc = "set_approved" ->
            set_approved_stmt(db, ev.chat, ev.approved, now)
      [] ev.pc = "set_config" ->
            set_config_stmt(db, ev.chat, Val(ev.written), now)
      [] ev.pc = "unregistered" -> remove_stmt(db, ev.chat)
      [] OTHER -> db

C34_StatePersistedBeforeSend ==
    /\ done.pc = "sending" =>
           StateOf(db[done.chat]) = Val(done.written)
    /\ done.pc = "send_failed" =>
           StateOf(db[done.chat]).last_slot = done.slot

C37_SameUpstreamFieldCompared ==
    WroteState =>
        \A mode \in {"sell", "buy"}, f \in Fields :
            LET cfg == Val(done.cfg)
                switched == Val(on_cb_config(cfg, Cb("setsb", done.chat, "",
                                                     mode, 0)))
                data == Val(done.body).data
                last == Val(done.written).last_values[f[1]]
                it == FieldItem(f)
            IN (/\ ItemKey(it, switched.sellbuy) # ItemKey(it, cfg.sellbuy)
                /\ it.code \in switched.selected[f[1]])
                   => /\ ItemArrow(it, switched, data, last) = ""
                      /\ ~ItemChanged(it, switched, data, last)

\* C38: when the tick at minute t has called send_for_chat for a target
\* with interval n, the target is due again at t + n and at no minute in
\* between
C38_DueSlotsOneIntervalApart ==
    (TickPassed /\ frame["sched"].pc # "idle") =>
        LET n == ConfigOf(db[1]).interval_min
            t == loop.tickNow
        IN /\ Due(db[1], t + n)
           /\ \A m \in (t + 1)..(t + n - 1) : ~Due(db[1], m)

\* C39: a callback query or a text message of a user who is not an admin
\* ends at the is_admin test: no handler branch runs, no configuration or
\* approval is handed to storage, no invocation starts, nothing is sent and
\* no request is left pending; and the statement of a registration gives a
\* new target an unapproved row whose configuration has auto_send off and
\* changes neither approval nor configuration nor state of any row that
\* exists
C39_StrangersChangeNothing ==
    [][/\ (\E uid \in Strangers :
              OnCbBy(uid) \/ SendNowBy(uid) \/ OnTextBy(uid)) =>
             /\ done'.pc = "denied" /\ done'.written = None
             /\ db' = db /\ frame' = frame /\ outbox' = outbox
             /\ user_data' = user_data /\ forced' = forced
       /\ done'.pc = "registered" =>
             LET c == done'.chat
                 e == upsert_stmt(db, c, now)
             IN /\ \A k \in Chats \ {c} : e[k] = db[k]
                /\ db[c].present => SameSettings(db, e, c)
                /\ ~db[c].present =>
                      /\ e[c].present /\ e[c].approved = 0
                      /\ ~ConfigOf(e[c]).auto_send
                      /\ ~Eligible(e[c].approved # 0, ConfigOf(e[c]))]_vars

\* a user who is not an admin has pressed a button or sent a text while
\* chat 1 is registered and a request of the admin is pending
C39_Witness ==
    /\ done.pc = "denied"
    /\ db[1].present
    /\ user_data # None

====
